---------------------------- MODULE Spec2Model ----------------------------
(***************************************************************************)
(* A model of NDVI_Calculator.py: the NDVI formula (calculate_ndvi), the   *)
(* raster pipeline (generate_ndvi_raster) and the clip stage               *)
(* (clip_ndvi_by_shapefile).                                               *)
(*                                                                         *)
(* Arrays are records [dtype, a] where a is a sequence of rows.  Integer   *)
(* samples are integers of the dtype's width; floating-point values are    *)
(* exact rationals <<n, d>> in lowest terms with d > 0 (binary rounding of *)
(* a quotient is not represented; the conversion of an integer sample of   *)
(* at most 32 bits to binary64 is exact).  An optional value (nodata, CRS) *)
(* is <<>> for None.                                                       *)
(***************************************************************************)
EXTENDS Integers, Sequences, FiniteSets, TLC

VARIABLES
    \* a direct call of calculate_ndvi
    red_band,   \* the red_band argument
    nir_band,   \* the nir_band argument
    ret,        \* what the call returned or raised
    epc,        \* "call" before the call, "returned" after it
    \* a call of generate_ndvi_raster or clip_ndvi_by_shapefile
    fs,         \* the file at each path
    fs0,        \* the file at each path when the stage was called
    handles,    \* the dataset handles that are open: "src", "dst"
    pc,         \* the statement the stage is at; "idle" before, "done" after
    args,       \* the arguments of the call
    loc,        \* the local variables of the stage
    report,     \* what the statistics block of lines 107-113 printed
    result      \* the path returned or the exception raised

evars == <<red_band, nir_band, ret, epc>>
svars == <<fs, fs0, handles, pc, args, loc, report, result>>
vars == <<red_band, nir_band, ret, epc, fs, fs0, handles, pc, args, loc, report, result>>

---------------------------------------------------------------------------
(* Bounds of the model *)

\* the largest number of elements of an array handed to calculate_ndvi directly
MaxCells == 3
\* the largest number of pixels of a band of a raster file
MaxPixels == 2

---------------------------------------------------------------------------
(* Numbers *)

None == <<>>

Abs(x) == IF x < 0 THEN -x ELSE x

RECURSIVE GCD(_, _)
GCD(x, y) == IF y = 0 THEN x ELSE GCD(y, x % y)

\* the rational n/d in lowest terms, d # 0
Rat(n, d) ==
    LET g == GCD(Abs(n), Abs(d))
        s == IF d < 0 THEN -1 ELSE 1
    IN  <<(s * n) \div g, (s * d) \div g>>

Zero == <<0, 1>>
RatAdd(x, y) == Rat(x[1] * y[2] + y[1] * x[2], x[2] * y[2])
RatSub(x, y) == Rat(x[1] * y[2] - y[1] * x[2], x[2] * y[2])
RatMul(x, y) == Rat(x[1] * y[1], x[2] * y[2])
RatDiv(x, y) == Rat(x[1] * y[2], x[2] * y[1])
RatLeq(x, y) == x[1] * y[2] <= y[1] * x[2]

RECURSIVE Pow2(_)
Pow2(n) == IF n = 0 THEN 1 ELSE 2 * Pow2(n - 1)

\* the pixel types of the model: numpy's uint8 and int8, and the float types
IntTypes == {"uint8", "int8"}
Bits(dt) == 8
Signed(dt) == dt = "int8"
IsFloat(dt) == dt \in {"float32", "float64"}

\* an integer result stored in an array of integer type dt (two's complement)
WrapInt(dt, x) ==
    LET m == Pow2(Bits(dt))
        u == x % m
    IN  IF Signed(dt) /\ u >= m \div 2 THEN u - m ELSE u

\* an element of an array of type dt as a number
Num(dt, x) == IF IsFloat(dt) THEN x ELSE <<x, 1>>

---------------------------------------------------------------------------
(* Arrays *)

Rows(A) == Len(A.a)
Cols(A) == Len(A.a[1])
Shape(A) == <<Rows(A), Cols(A)>>

\* numpy's broadcasting of two 2-D shapes
Broadcastable(s, t) == \A k \in 1..2 : s[k] = t[k] \/ s[k] = 1 \/ t[k] = 1
Max(x, y) == IF x >= y THEN x ELSE y
BroadcastShape(s, t) == <<Max(s[1], t[1]), Max(s[2], t[2])>>
At(A, i, j) == A.a[IF Rows(A) = 1 THEN 1 ELSE i][IF Cols(A) = 1 THEN 1 ELSE j]

\* band.astype(float): a binary64 array of the same shape and values
astype_float(band) ==
    [dtype |-> "float64",
     a |-> [i \in 1..Rows(band) |-> [j \in 1..Cols(band) |-> Num(band.dtype, band.a[i][j])]]]

\* elementwise nir + red and nir - red in the arrays' type
Plus(dt, x, y) == IF IsFloat(dt) THEN RatAdd(x, y) ELSE WrapInt(dt, x + y)
Minus(dt, x, y) == IF IsFloat(dt) THEN RatSub(x, y) ELSE WrapInt(dt, x - y)

\* the quotient with sum and difference exchanged
ndvi_element_inverted(dt, red, nir) ==
    LET denominator == Num(dt, Minus(dt, nir, red))
    IN  IF denominator = Zero THEN Zero
        ELSE RatDiv(Num(dt, Plus(dt, nir, red)), denominator)

\* lines 33-38 at one position: the zero-denominator policy and the quotient
ndvi_element(dt, red, nir) ==
    LET denominator == Num(dt, Plus(dt, nir, red))
    IN  IF denominator = Zero THEN Zero
        ELSE RatDiv(Num(dt, Minus(dt, nir, red)), denominator)

\* lines 33-38 on two arrays of one type, broadcast against each other
ndvi_where(red, nir) ==
    LET sh == BroadcastShape(Shape(red), Shape(nir))
    IN  IF ~Broadcastable(Shape(red), Shape(nir))
        THEN [ok |-> FALSE, err |-> "ValueError"]
        ELSE [ok |-> TRUE,
              val |-> [dtype |-> "float64",
                       a |-> [i \in 1..sh[1] |-> [j \in 1..sh[2] |->
                                ndvi_element(red.dtype, At(red, i, j), At(nir, i, j))]]]]

\* the same without the conversion to float of lines 29-30
calculate_ndvi_nowiden(red_band_, nir_band_) == ndvi_where(red_band_, nir_band_)

calculate_ndvi(red_band_, nir_band_) ==
    ndvi_where(astype_float(red_band_), astype_float(nir_band_))

---------------------------------------------------------------------------
(* The inputs of the model *)

Samples(dt) == IF dt = "uint8" THEN {0, 100, 200} ELSE {-2, 3}

ShapesUpTo(n) == {s \in (1..n) \X (1..n) : s[1] * s[2] <= n}
ArraysOf(dt, s) ==
    {[dtype |-> dt, a |-> rows] : rows \in [1..s[1] -> [1..s[2] -> Samples(dt)]]}
Arrays(n) == UNION {ArraysOf(dt, s) : dt \in IntTypes, s \in ShapesUpTo(n)}

---------------------------------------------------------------------------
(* A direct call of calculate_ndvi *)

NoRet == [ok |-> FALSE, err |-> "none"]

EInit ==
    /\ red_band \in Arrays(MaxCells)
    /\ nir_band \in Arrays(MaxCells)
    /\ red_band.dtype = nir_band.dtype
    /\ ret = NoRet
    /\ epc = "call"

ECall ==
    /\ epc = "call"
    /\ ret' = calculate_ndvi(red_band, nir_band)
    /\ epc' = "returned"
    /\ UNCHANGED <<red_band, nir_band>>


---------------------------------------------------------------------------
(* Files *)

Paths == {"scene.tif", "ndvi.tif", "aoi.shp"}
Absent == [kind |-> "absent"]

\* a dataset without a coordinate reference system has crs None
NoCRS == "None"
UTM33 == "EPSG:32633"
UTM34 == "EPSG:32634"
\* the easting of a point in a CRS is its easting in UTM33 plus Offset
Offset(crs) == IF crs = UTM34 THEN 10 ELSE 0

\* an affine transform with unit pixels and its origin at (c, f)
Transform(c, f) == <<1, 0, c, 0, -1, f>>

Profile(dt, nodata, s, count, crs) ==
    [driver |-> "GTiff", dtype |-> dt, nodata |-> nodata, width |-> s[2],
     height |-> s[1], count |-> count, crs |-> crs, transform |-> Transform(0, 0)]

Raster(profile, bands) ==
    [kind |-> "raster", profile |-> profile, bands |-> bands,
     descriptions |-> [k \in 1..profile.count |-> ""]]

\* the sentinels a dataset of type dt may declare
Sentinels(dt) == {None, IF dt = "uint8" THEN <<200, 1>> ELSE <<3, 1>>}

\* two-band rasters of every shape, content and sentinel
Datasets ==
    UNION {{Raster(Profile(dt, nd, s, 2, UTM33), <<b1, b2>>) :
              b1 \in ArraysOf(dt, s), b2 \in ArraysOf(dt, s), nd \in Sentinels(dt)} :
           dt \in IntTypes, s \in ShapesUpTo(MaxPixels)}

\* one-band float rasters, as the pipeline writes them, with and without a CRS
NdviRasters ==
    {Raster(Profile("float32", <<-9999, 1>>, <<1, MaxPixels>>, 1, crs),
            <<[dtype |-> "float32", a |-> <<[j \in 1..MaxPixels |-> Rat(j, 3)]>>]>>) :
       crs \in {NoCRS, UTM33, UTM34}}

\* a geometry: the strip of the plane between the eastings minx and maxx
Strip(minx, maxx) == [minx |-> minx, maxx |-> maxx]
\* a boundary file: a CRS and one or more geometries
Vector(crs, geometry) == [kind |-> "vector", crs |-> crs, geometry |-> geometry]
\* boundaries of one geometry and of two: adjacent, apart, and with the first
\* or the second off the raster
Geometries ==
    {<<Strip(0, MaxPixels)>>, <<Strip(1, 2)>>, <<Strip(11, 12)>>,
     <<Strip(0, 1), Strip(1, 2)>>, <<Strip(5, 6), Strip(0, 1)>>,
     <<Strip(1, 2), Strip(-3, -2)>>, <<Strip(-3, -2), Strip(5, 6)>>,
     <<Strip(10, 11), Strip(15, 16)>>}
Vectors == {Vector(crs, g) : crs \in {NoCRS, UTM33, UTM34}, g \in Geometries}

FileSystems ==
    {[p \in Paths |-> CASE p = "scene.tif" -> d
                         [] p = "ndvi.tif" -> o
                         [] OTHER -> Vector(UTM33, <<Strip(0, 1)>>)] :
       d \in Datasets, o \in {Absent}}
    \cup
    {[p \in Paths |-> CASE p = "scene.tif" -> d
                         [] p = "ndvi.tif" -> o
                         [] OTHER -> v] :
       d \in NdviRasters, o \in {Absent} \cup NdviRasters, v \in Vectors}

---------------------------------------------------------------------------
(* The state of a stage *)

NoLocals ==
    [profile |-> None, red |-> None, nir |-> None, mask |-> None, ndvi |-> None,
     gdf |-> None, reprojected |-> FALSE, out_image |-> None, out_meta |-> None]
NoArgs ==
    [stage |-> "none", input |-> "scene.tif", output |-> "scene.tif",
     shapefile |-> "aoi.shp", red_band_index |-> 0, nir_band_index |-> 0,
     nodata_value |-> Zero]
NoResult == [ok |-> FALSE, err |-> "none", val |-> ""]
NoReport == <<>>

SInit ==
    /\ fs \in FileSystems
    /\ fs0 = fs
    /\ handles = {}
    /\ pc = "idle"
    /\ args = NoArgs
    /\ loc = NoLocals
    /\ report = NoReport
    /\ result = NoResult

\* handles opened without a with block stay open on an exception
UnwindLeak(h) == h

\* leaving the with blocks on an exception releases every handle they hold
Unwind(h) == {}

Raise(e) ==
    /\ pc' = "done"
    /\ result' = [ok |-> FALSE, err |-> e, val |-> ""]
    /\ handles' = Unwind(handles)
    /\ loc' = NoLocals

Return(path) ==
    /\ pc' = "done"
    /\ result' = [ok |-> TRUE, err |-> "none", val |-> path]
    /\ loc' = NoLocals

\* rasterio.open(path) succeeds on a raster file
Readable(path) == fs[path].kind = "raster"

\* rasterio.open(path, 'w', **profile): a new file replaces what the path held
Created(profile) ==
    LET z == IF IsFloat(profile.dtype) THEN Zero ELSE 0
    IN  Raster(profile,
               [k \in 1..profile.count |->
                  [dtype |-> profile.dtype,
                   a |-> [i \in 1..profile.height |-> [j \in 1..profile.width |-> z]]]])


---------------------------------------------------------------------------
(* generate_ndvi_raster *)

\* a mask that looks at the red band only
nodata_mask_red_only(red, nir, nodata) ==
    [i \in 1..Rows(red) |-> [j \in 1..Cols(red) |->
        IF nodata # None THEN Num(red.dtype, red.a[i][j]) = nodata ELSE FALSE]]

\* lines 81-84: the positions where either band holds the dataset's sentinel
nodata_mask(red, nir, nodata) ==
    [i \in 1..Rows(red) |-> [j \in 1..Cols(red) |->
        IF nodata # None
        THEN Num(red.dtype, red.a[i][j]) = nodata \/ Num(nir.dtype, nir.a[i][j]) = nodata
        ELSE FALSE]]

\* line 91: ndvi[mask] = nodata_value
apply_mask(ndvi, mask, nodata_value) ==
    [ndvi EXCEPT !.a = [i \in 1..Rows(ndvi) |-> [j \in 1..Cols(ndvi) |->
        IF mask[i][j] THEN nodata_value ELSE ndvi.a[i][j]]]]

\* an update that leaves the band count of the input
update_profile_keep_count(profile, nodata_value) ==
    [profile EXCEPT !.dtype = "float32", !.nodata = nodata_value]

\* lines 94-98: profile.update
update_profile(profile, nodata_value) ==
    [profile EXCEPT !.count = 1, !.dtype = "float32", !.nodata = nodata_value]

\* ndvi.astype(rasterio.float32): a binary32 array of the same shape
astype_float32(A) == [A EXCEPT !.dtype = "float32"]

\* line 107: ndvi[~mask], the unmasked elements in row-major order
RECURSIVE Select(_, _, _)
Select(A, mask, k) ==
    IF k > Rows(A) * Cols(A) THEN <<>>
    ELSE LET i == ((k - 1) \div Cols(A)) + 1
             j == ((k - 1) % Cols(A)) + 1
         IN  (IF mask[i][j] THEN <<>> ELSE <<A.a[i][j]>>) \o Select(A, mask, k + 1)
valid_ndvi(ndvi, mask) == Select(ndvi, mask, 1)

RECURSIVE SeqMin(_)
SeqMin(s) ==
    IF Len(s) = 1 THEN s[1]
    ELSE LET m == SeqMin(Tail(s)) IN IF RatLeq(s[1], m) THEN s[1] ELSE m
RECURSIVE SeqMax(_)
SeqMax(s) ==
    IF Len(s) = 1 THEN s[1]
    ELSE LET m == SeqMax(Tail(s)) IN IF RatLeq(m, s[1]) THEN s[1] ELSE m
RECURSIVE SeqSum(_)
SeqSum(s) == IF s = <<>> THEN Zero ELSE RatAdd(s[1], SeqSum(Tail(s)))
SeqMean(s) == RatDiv(SeqSum(s), <<Len(s), 1>>)
\* the square of numpy's std(): the mean of the squared deviations
SeqVar(s) ==
    LET m == SeqMean(s)
    IN  SeqMean([k \in 1..Len(s) |-> RatMul(RatSub(s[k], m), RatSub(s[k], m))])

\* statistics without the guard of line 108
stats_always(valid) == TRUE

\* line 108: the statistics are printed for a non-empty selection only
stats_wanted(valid) == Len(valid) > 0

\* lines 109-113: what the statistics block prints
statistics(valid) ==
    <<[title |-> "NDVI Statistics:", n |-> Len(valid), min |-> SeqMin(valid),
       max |-> SeqMax(valid), mean |-> SeqMean(valid), std2 |-> SeqVar(valid)]>>

\* writing over the input raster
output_path_in_place(a) == a.input

\* the path the output raster is created at (line 102, line 156)
output_path(a) == a.output

\* the call and lines 69-71
GOpen ==
    /\ pc = "idle"
    /\ \E input \in Paths, output \in Paths, r \in 1..3, n \in 1..3,
          nodata_value \in {<<-9999, 1>>, Zero} :
          /\ args' = [stage |-> "generate", input |-> input, output |-> output,
                      shapefile |-> "aoi.shp", red_band_index |-> r,
                      nir_band_index |-> n, nodata_value |-> nodata_value]
          /\ IF Readable(input)
             THEN /\ handles' = handles \cup {"src"}
                  /\ loc' = [loc EXCEPT !.profile = fs[input].profile]
                  /\ pc' = "g_read_red"
                  /\ UNCHANGED result
             ELSE Raise("RasterioIOError")
    /\ fs0' = fs
    /\ UNCHANGED <<fs, report>>

\* src.read(index): bands are numbered 1..count
ReadBand(which, index, next) ==
    /\ IF index \in 1..fs[args.input].profile.count
       THEN /\ loc' = [loc EXCEPT ![which] = fs[args.input].bands[index]]
            /\ pc' = next
            /\ UNCHANGED <<handles, result>>
       ELSE Raise("IndexError")
    /\ UNCHANGED <<fs, fs0, args, report>>

\* line 75
GReadRed == pc = "g_read_red" /\ ReadBand("red", args.red_band_index, "g_read_nir")

\* line 78
GReadNir == pc = "g_read_nir" /\ ReadBand("nir", args.nir_band_index, "g_compute")

\* lines 81-98
GCompute ==
    /\ pc = "g_compute"
    /\ LET mask == nodata_mask(loc.red, loc.nir, fs[args.input].profile.nodata)
           ndvi == calculate_ndvi(loc.red, loc.nir).val
       IN  loc' = [loc EXCEPT !.mask = mask,
                              !.ndvi = apply_mask(ndvi, mask, args.nodata_value),
                              !.profile = update_profile(loc.profile, args.nodata_value)]
    /\ pc' = "g_create"
    /\ UNCHANGED <<fs, fs0, handles, args, report, result>>

\* line 102
GCreate ==
    /\ pc = "g_create"
    /\ \/ /\ fs' = [fs EXCEPT ![output_path(args)] = Created(loc.profile)]
          /\ handles' = handles \cup {"dst"}
          /\ pc' = "g_write"
          /\ UNCHANGED <<loc, result>>
       \/ /\ Raise("RasterioIOError")
          /\ UNCHANGED fs
    /\ UNCHANGED <<fs0, args, report>>

\* line 103
GWrite ==
    /\ pc = "g_write"
    /\ \/ /\ fs' = [fs EXCEPT ![output_path(args)].bands[1] = astype_float32(loc.ndvi)]
          /\ pc' = "g_describe"
          /\ UNCHANGED <<handles, loc, result>>
       \/ /\ Raise("RasterioIOError")
          /\ UNCHANGED fs
    /\ UNCHANGED <<fs0, args, report>>

\* line 104 and the end of the inner with block
GDescribe ==
    /\ pc = "g_describe"
    /\ \/ /\ fs' = [fs EXCEPT ![output_path(args)].descriptions[1] = "NDVI"]
          /\ handles' = handles \ {"dst"}
          /\ pc' = "g_stats"
          /\ UNCHANGED <<loc, result>>
       \/ /\ Raise("RasterioIOError")
          /\ UNCHANGED fs
    /\ UNCHANGED <<fs0, args, report>>

\* lines 107-116: the statistics, the end of the outer with block, the return
GStats ==
    /\ pc = "g_stats"
    /\ LET valid == valid_ndvi(loc.ndvi, loc.mask)
       IN  IF stats_wanted(valid)
           THEN IF Len(valid) = 0
                THEN /\ Raise("ValueError")     \* min() of an empty array
                     /\ UNCHANGED report
                ELSE /\ report' = statistics(valid)
                     /\ handles' = handles \ {"src"}
                     /\ Return(args.output)
           ELSE /\ report' = NoReport
                /\ handles' = handles \ {"src"}
                /\ Return(args.output)
    /\ UNCHANGED <<fs, fs0, args>>


---------------------------------------------------------------------------
(* clip_ndvi_by_shapefile *)

\* a clip that never reprojects the boundary
never_reproject(gdf_crs, src_crs) == FALSE

\* line 139: the boundary is reprojected when its CRS is not the raster's
needs_reprojection(gdf_crs, src_crs) == gdf_crs # src_crs

\* gdf.to_crs(crs): the same boundary with its coordinates in crs
to_crs(gdf, crs) ==
    [crs |-> crs,
     geometry |-> [k \in 1..Len(gdf.geometry) |->
                     [minx |-> gdf.geometry[k].minx - Offset(gdf.crs) + Offset(crs),
                      maxx |-> gdf.geometry[k].maxx - Offset(gdf.crs) + Offset(crs)]]]

\* the extent of all the geometries together
Extent(geometry) ==
    LET K == 1..Len(geometry)
    IN  [minx |-> CHOOSE x \in {geometry[k].minx : k \in K} :
                     \A k \in K : x <= geometry[k].minx,
         maxx |-> CHOOSE x \in {geometry[k].maxx : k \in K} :
                     \A k \in K : x >= geometry[k].maxx]

\* the columns of the raster the geometries' extent covers, the coordinates
\* read in the raster's CRS
Window(profile, geometry) ==
    LET x0 == profile.transform[3]
        e == Extent(geometry)
        lo == Max(e.minx - x0, 0)
        hi == IF e.maxx - x0 <= profile.width THEN e.maxx - x0 ELSE profile.width
    IN  [col_off |-> lo, width |-> hi - lo]

\* the centre of column c of the raster lies in one of the geometries
Covered(profile, geometry, c) ==
    LET x0 == profile.transform[3]
    IN  \E k \in 1..Len(geometry) :
           geometry[k].minx <= x0 + c - 1 /\ x0 + c <= geometry[k].maxx

\* what mask() fills a pixel outside every geometry with: the dataset's nodata
\* value, or 0 when it declares none
fill_value(profile) ==
    IF profile.nodata = None
    THEN (IF IsFloat(profile.dtype) THEN Zero ELSE 0)
    ELSE (IF IsFloat(profile.dtype) THEN profile.nodata ELSE profile.nodata[1])

\* rasterio.mask.mask(src, shapes, crop=True): every band cut to the window,
\* the pixels in no geometry filled
crop_image(raster, w, geometry) ==
    [k \in 1..raster.profile.count |->
       [raster.bands[k] EXCEPT !.a =
          [i \in 1..raster.profile.height |->
             [j \in 1..w.width |->
                IF Covered(raster.profile, geometry, w.col_off + j)
                THEN raster.bands[k].a[i][w.col_off + j]
                ELSE fill_value(raster.profile)]]]]

crop_transform(profile, w) ==
    [profile.transform EXCEPT ![3] = profile.transform[3] + w.col_off]

\* lines 146-153: src.meta.copy() and its update
update_meta(meta, out_image, out_transform) ==
    [meta EXCEPT !.height = Rows(out_image[1]), !.width = Cols(out_image[1]),
                 !.transform = out_transform]

\* the call and line 135
CRead ==
    /\ pc = "idle"
    /\ \E input \in Paths, shapefile \in Paths, output \in Paths :
          /\ args' = [stage |-> "clip", input |-> input, output |-> output,
                      shapefile |-> shapefile, red_band_index |-> 0,
                      nir_band_index |-> 0, nodata_value |-> Zero]
          /\ IF fs[shapefile].kind = "vector"
             THEN /\ loc' = [loc EXCEPT !.gdf = [crs |-> fs[shapefile].crs,
                                                geometry |-> fs[shapefile].geometry]]
                  /\ pc' = "c_open"
                  /\ UNCHANGED <<handles, result>>
             ELSE Raise("DataSourceError")
    /\ fs0' = fs
    /\ UNCHANGED <<fs, report>>

\* line 138
COpen ==
    /\ pc = "c_open"
    /\ IF Readable(args.input)
       THEN /\ handles' = handles \cup {"src"}
            /\ pc' = "c_reproject"
            /\ UNCHANGED <<loc, result>>
       ELSE Raise("RasterioIOError")
    /\ UNCHANGED <<fs, fs0, args, report>>

\* lines 139-141
CReproject ==
    /\ pc = "c_reproject"
    /\ LET src_crs == fs[args.input].profile.crs
       IN  IF needs_reprojection(loc.gdf.crs, src_crs)
           THEN IF loc.gdf.crs = NoCRS \/ src_crs = NoCRS
                THEN Raise("ValueError")
                ELSE /\ loc' = [loc EXCEPT !.gdf = to_crs(loc.gdf, src_crs),
                                           !.reprojected = TRUE]
                     /\ pc' = "c_crop"
                     /\ UNCHANGED <<handles, result>>
           ELSE /\ pc' = "c_crop"
                /\ UNCHANGED <<handles, loc, result>>
    /\ UNCHANGED <<fs, fs0, args, report>>

\* lines 145-153
CCrop ==
    /\ pc = "c_crop"
    /\ LET src == fs[args.input]
           w == Window(src.profile, loc.gdf.geometry)
       IN  IF w.width <= 0
           THEN Raise("ValueError")      \* Input shapes do not overlap raster
           ELSE /\ LET out_image == crop_image(src, w, loc.gdf.geometry)
                       out_transform == crop_transform(src.profile, w)
                   IN  loc' = [loc EXCEPT !.out_image = out_image,
                                          !.out_meta = update_meta(src.profile, out_image,
                                                                   out_transform)]
                /\ pc' = "c_create"
                /\ UNCHANGED <<handles, result>>
    /\ UNCHANGED <<fs, fs0, args, report>>

\* line 156
CCreate ==
    /\ pc = "c_create"
    /\ \/ /\ fs' = [fs EXCEPT ![output_path(args)] = Created(loc.out_meta)]
          /\ handles' = handles \cup {"dst"}
          /\ pc' = "c_write"
          /\ UNCHANGED <<loc, result>>
       \/ /\ Raise("RasterioIOError")
          /\ UNCHANGED fs
    /\ UNCHANGED <<fs0, args, report>>

\* lines 157-160: the write, the end of both with blocks, the return
CWrite ==
    /\ pc = "c_write"
    /\ \/ /\ fs' = [fs EXCEPT ![output_path(args)].bands = loc.out_image]
          /\ handles' = (handles \ {"dst"}) \ {"src"}
          /\ Return(args.output)
       \/ /\ Raise("RasterioIOError")
          /\ UNCHANGED fs
    /\ UNCHANGED <<fs0, args, report>>

---------------------------------------------------------------------------
(* Specifications *)

\* a direct call of the NDVI formula on every pair of arrays
EngineInit ==
    /\ EInit
    /\ fs = [p \in Paths |-> Absent] /\ fs0 = fs /\ handles = {} /\ pc = "idle"
    /\ args = NoArgs /\ loc = NoLocals /\ report = NoReport /\ result = NoResult
EngineNext == ECall /\ UNCHANGED svars
EngineSpec == EngineInit /\ [][EngineNext]_vars

\* one call of a stage on every file system
Init ==
    /\ SInit
    /\ red_band = None /\ nir_band = None /\ ret = NoRet /\ epc = "none"

Next ==
    \/ (GOpen /\ UNCHANGED evars)
    \/ (GReadRed /\ UNCHANGED evars)
    \/ (GReadNir /\ UNCHANGED evars)
    \/ (GCompute /\ UNCHANGED evars)
    \/ (GCreate /\ UNCHANGED evars)
    \/ (GWrite /\ UNCHANGED evars)
    \/ (GDescribe /\ UNCHANGED evars)
    \/ (GStats /\ UNCHANGED evars)
    \/ (CRead /\ UNCHANGED evars)
    \/ (COpen /\ UNCHANGED evars)
    \/ (CReproject /\ UNCHANGED evars)
    \/ (CCrop /\ UNCHANGED evars)
    \/ (CCreate /\ UNCHANGED evars)
    \/ (CWrite /\ UNCHANGED evars)

Spec == Init /\ [][Next]_vars


---------------------------------------------------------------------------
(* Properties *)

\* x is the exact quotient (nir - red) / (nir + red) of two samples (given as
\* fractions), or 0 where the sum is 0
IsNdviOf(x, red, nir) ==
    LET sum == nir[1] * red[2] + red[1] * nir[2]
        difference == nir[1] * red[2] - red[1] * nir[2]
    IN  IF sum = 0 THEN x = Zero
        ELSE x[2] > 0 /\ x[1] * sum = difference * x[2]

\* the sample of a band at a position, as a fraction
Sample(A, p) == IF IsFloat(A.dtype) THEN A.a[p[1]][p[2]] ELSE <<A.a[p[1]][p[2]], 1>>

InRange(x) == RatLeq(<<-1, 1>>, x) /\ RatLeq(x, <<1, 1>>)

Positions(A) == (1..Rows(A)) \X (1..Cols(A))

GenerateDone == pc = "done" /\ args.stage = "generate" /\ result.ok
ClipDone == pc = "done" /\ args.stage = "clip" /\ result.ok
\* the output raster of generate_ndvi_raster holds the NDVI band
GenerateWritten ==
    (args.stage = "generate" /\ pc \in {"g_describe", "g_stats"}) \/ GenerateDone
\* the output raster of generate_ndvi_raster exists
GenerateCreated == (args.stage = "generate" /\ pc = "g_write") \/ GenerateWritten

\* the input dataset and the two bands of the call, as they were when it began
Src0 == fs0[args.input]
Red0 == Src0.bands[args.red_band_index]
Nir0 == Src0.bands[args.nir_band_index]
\* the positions where either band holds the sentinel the dataset declares
MaskedPositions ==
    {p \in Positions(Red0) :
       /\ Src0.profile.nodata # None
       /\ \/ Sample(Red0, p) = Src0.profile.nodata
          \/ Sample(Nir0, p) = Src0.profile.nodata}
Unmasked == Positions(Red0) \ MaskedPositions
\* the band the pipeline wrote
Written == fs[args.output].bands[1]
WrittenAt(p) == Written.a[p[1]][p[2]]

RECURSIVE SumOver(_)
SumOver(S) ==
    IF S = {} THEN Zero
    ELSE LET p == CHOOSE q \in S : TRUE IN RatAdd(WrittenAt(p), SumOver(S \ {p}))

\* the statistics reported are those of the written values at the positions S
StatisticsOver(S) ==
    IF S = {} THEN report = NoReport
    ELSE /\ Len(report) = 1
         /\ report[1].n = Cardinality(S)
         /\ \E p \in S : report[1].min = WrittenAt(p)
         /\ \E p \in S : report[1].max = WrittenAt(p)
         /\ \A p \in S : RatLeq(report[1].min, WrittenAt(p)) /\ RatLeq(WrittenAt(p), report[1].max)
         /\ RatMul(report[1].mean, <<Cardinality(S), 1>>) = SumOver(S)

\* C1: for equal-shaped integer arrays calculate_ndvi returns an array of that
\* shape whose every element is 0 where nir + red = 0 and otherwise the exact
\* quotient (nir - red) / (nir + red) of the samples, the sum and the difference
\* taken without wrapping at the samples' width.
C1_ExactQuotient ==
    (epc = "returned" /\ Shape(red_band) = Shape(nir_band)) =>
        /\ ret.ok
        /\ Shape(ret.val) = Shape(red_band)
        /\ \A p \in Positions(red_band) :
              IsNdviOf(ret.val.a[p[1]][p[2]], Sample(red_band, p), Sample(nir_band, p))

\* a returned array with a position whose sum exceeds the uint8 range and one
\* whose sum is zero
C1_Witness ==
    /\ epc = "returned" /\ Shape(red_band) = Shape(nir_band) /\ ret.ok
    /\ \E p \in Positions(red_band) :
          /\ red_band.a[p[1]][p[2]] + nir_band.a[p[1]][p[2]] > 255
          /\ ret.val.a[p[1]][p[2]] = <<1, 3>>
    /\ \E p \in Positions(red_band) :
          red_band.a[p[1]][p[2]] + nir_band.a[p[1]][p[2]] = 0

\* C2: whenever the two arrays differ in shape, calculate_ndvi fails and returns
\* no array (and nothing is written).
C2_ShapeMismatchFails ==
    (epc = "returned" /\ Shape(red_band) # Shape(nir_band)) =>
        (~ret.ok /\ fs = fs0)

\* C3 as stated: the written band equals the output nodata value at exactly the
\* positions where either input band holds the dataset's sentinel, and the
\* statistics are those of the other positions.
C3_NodataExactlyAtMasked ==
    GenerateDone =>
        /\ \A p \in Positions(Red0) :
              (WrittenAt(p) = args.nodata_value) <=> (p \in MaskedPositions)
        /\ StatisticsOver(Unmasked)

\* C3 amended: the written band equals the output nodata value at every masked
\* position and the NDVI of the two samples at every other position (which may
\* itself be the nodata value), and the statistics are those of the unmasked
\* positions.
C3_MaskedNodataElseNdvi ==
    GenerateDone =>
        /\ \A p \in MaskedPositions : WrittenAt(p) = args.nodata_value
        /\ \A p \in Unmasked :
              IsNdviOf(WrittenAt(p), Sample(Red0, p), Sample(Nir0, p))
        /\ StatisticsOver(Unmasked)

\* a finished run with masked and unmasked positions, masked by one band only
C3_Witness ==
    /\ GenerateDone
    /\ MaskedPositions # {} /\ Unmasked # {}
    /\ \E p \in MaskedPositions : Sample(Red0, p) # Src0.profile.nodata
    /\ report # NoReport

\* C4: when a stage ends in an error, the output path holds what it held before
\* the call (no new and no partly written file).
C4_NoPartialOutput ==
    (pc = "done" /\ args.stage # "none" /\ ~result.ok) =>
        fs[args.output] = fs0[args.output]

\* C5: the output raster is created with band count 1, type float32 and the
\* nodata_value argument, every other field that of the input's profile, and the
\* input's profile is as it was when the output profile has been derived.
C5_DerivedProfile ==
    /\ GenerateCreated =>
          LET P == fs[args.output].profile
              Q == Src0.profile
          IN  /\ P.count = 1 /\ P.dtype = "float32" /\ P.nodata = args.nodata_value
              /\ P.width = Q.width /\ P.height = Q.height
              /\ P.transform = Q.transform /\ P.crs = Q.crs /\ P.driver = Q.driver
              /\ DOMAIN P = DOMAIN Q
    /\ (args.stage = "generate" /\ pc = "g_create") =>
          fs[args.input].profile = Src0.profile

\* an output created from a two-band integer input with another nodata value
C5_Witness ==
    /\ GenerateCreated
    /\ Src0.profile.count = 2 /\ Src0.profile.dtype = "uint8"
    /\ Src0.profile.nodata = <<200, 1>> /\ args.nodata_value = <<-9999, 1>>
    /\ fs[args.output].profile.nodata = <<-9999, 1>>

\* C6 as stated: every element written is the output nodata value at a masked
\* position or lies in [-1, 1].
C6_RangeAlways ==
    GenerateWritten =>
        \A p \in Positions(Red0) :
            \/ p \in MaskedPositions /\ WrittenAt(p) = args.nodata_value
            \/ InRange(WrittenAt(p))

\* C6 amended: when no sample of the two bands is negative, every element
\* written is the output nodata value at a masked position or lies in [-1, 1].
C6_RangeNonNegative ==
    (GenerateWritten /\ \A p \in Positions(Red0) :
                           Sample(Red0, p)[1] >= 0 /\ Sample(Nir0, p)[1] >= 0) =>
        \A p \in Positions(Red0) :
            \/ p \in MaskedPositions /\ WrittenAt(p) = args.nodata_value
            \/ InRange(WrittenAt(p))

\* a written band of non-negative samples with an element at an end of the
\* range and a masked one
C6_Witness ==
    /\ GenerateWritten
    /\ \A p \in Positions(Red0) : Sample(Red0, p)[1] >= 0 /\ Sample(Nir0, p)[1] >= 0
    /\ \E p \in Unmasked : WrittenAt(p) \in {<<1, 1>>, <<-1, 1>>}
    /\ \E p \in MaskedPositions : WrittenAt(p) = <<-9999, 1>>

\* C7 as stated: after a stage completes, the input raster (and the boundary
\* file of a clip) holds what it held before the call, whatever the paths.
C7_InputsNeverChanged ==
    (pc = "done" /\ args.stage # "none" /\ result.ok) =>
        /\ fs[args.input] = fs0[args.input]
        /\ (args.stage = "clip" => fs[args.shapefile] = fs0[args.shapefile])

\* C7 amended: after a stage completes with an output path that is not the path
\* of one of its inputs, every file but the output holds what it held before
\* the call, and the output path holds the raster the stage wrote.
C7_InputsUnchangedWhenDistinct ==
    (/\ pc = "done" /\ args.stage # "none" /\ result.ok
     /\ args.output # args.input
     /\ (args.stage = "clip" => args.output # args.shapefile)) =>
        /\ \A p \in Paths \ {args.output} : fs[p] = fs0[p]
        /\ fs[args.output].kind = "raster"
        /\ result.val = args.output
        /\ (args.stage = "generate" => fs[args.output].descriptions = <<"NDVI">>)
        /\ (args.stage = "clip" => fs[args.output].profile.dtype = fs0[args.input].profile.dtype)

\* a completed stage that replaced an older file at its output path
C7_Witness ==
    /\ pc = "done" /\ result.ok /\ args.output # args.input
    /\ (args.stage = "clip" => args.output # args.shapefile)
    /\ fs0[args.output].kind = "raster" /\ fs[args.output] # fs0[args.output]

\* C8: the boundary is reprojected exactly when its CRS differs from the
\* raster's, before the crop: when the crop runs the geometries are in the
\* raster's CRS at the place the boundary file gives, the raster is as it was,
\* and the clipped output carries the raster's CRS.
C8_ReprojectBeforeCrop ==
    /\ (args.stage = "clip" /\ pc \in {"c_crop", "c_create", "c_write"}) =>
          LET vec == fs0[args.shapefile]
              ras == fs0[args.input]
          IN  /\ loc.gdf.crs = ras.profile.crs
              /\ loc.reprojected <=> (vec.crs # ras.profile.crs)
              /\ \A k \in 1..Len(vec.geometry) :
                    /\ loc.gdf.geometry[k].minx - Offset(ras.profile.crs)
                          = vec.geometry[k].minx - Offset(vec.crs)
                    /\ loc.gdf.geometry[k].maxx - Offset(ras.profile.crs)
                          = vec.geometry[k].maxx - Offset(vec.crs)
              /\ (pc \in {"c_crop", "c_create"} => fs[args.input] = ras)
    /\ ClipDone => fs[args.output].profile.crs = fs0[args.input].profile.crs

\* a crop about to run on a boundary that was reprojected
C8_Witness ==
    /\ args.stage = "clip" /\ pc = "c_crop"
    /\ loc.reprojected
    /\ fs0[args.shapefile].crs = UTM34 /\ loc.gdf.crs = UTM33

\* the call of generate_ndvi_raster read both bands and every position is masked
AllMasked ==
    /\ args.stage = "generate" /\ pc = "done"
    /\ Src0.kind = "raster"
    /\ args.red_band_index \in 1..Src0.profile.count
    /\ args.nir_band_index \in 1..Src0.profile.count
    /\ Unmasked = {}

\* C9 as stated: when every element is masked the statistics are not computed,
\* no error is raised, the output path is returned, and an empty-input report
\* is emitted in place of the statistics.
C9_EmptyInputReport ==
    (AllMasked /\ result.err # "RasterioIOError") =>
        /\ result.ok /\ result.val = args.output
        /\ report # NoReport
        /\ \A k \in 1..Len(report) : report[k].title # "NDVI Statistics:"

\* C9 amended: when every element is masked the statistics are not computed,
\* no error is raised, the output path is returned, and nothing is emitted in
\* place of the statistics.
C9_AllMaskedNoStatistics ==
    (AllMasked /\ result.err # "RasterioIOError") =>
        /\ result.ok /\ result.val = args.output
        /\ report = NoReport

\* a completed run on a dataset whose every position is masked
C9_Witness == AllMasked /\ result.ok /\ fs[args.output].kind = "raster"

\* C10: no handle opened by a stage is open when control is with the caller,
\* whether the stage returned or raised.
C10_HandlesReleased == pc \in {"idle", "done"} => handles = {}

\* a stage that raised while the input and the output raster were open: the
\* output file was created and the call ended in an error
C10_Witness ==
    /\ pc = "done" /\ args.stage # "none" /\ ~result.ok
    /\ fs[args.output] # fs0[args.output]
    /\ handles = {}

=============================================================================
